---- MODULE Spec2Model ----
(***************************************************************************)
(* SeasonFinder (src/app.py): one run of the Streamlit script, top to      *)
(* bottom.  Temperatures and thresholds are whole degrees Celsius; the     *)
(* Match % column is kept in tenths of a percent (1000 = 100.0).           *)
(***************************************************************************)
EXTENDS Integers, Sequences, FiniteSets

VARIABLES pc, df_columns, df, winter_thresh, summer_thresh,
          w_pref, sp_pref, su_pref, fa_pref,
          out, out_sorted, picked_row, temps_c, labels

vars == <<pc, df_columns, df, winter_thresh, summer_thresh,
          w_pref, sp_pref, su_pref, fa_pref,
          out, out_sorted, picked_row, temps_c, labels>>

-----------------------------------------------------------------------------
(* Bounds of the model *)

\* most rows in an uploaded CSV
MaxRows == 2

\* pattern temperatures of the generated series are 0..MaxTemp
MaxTemp == 2

\* length of the pattern a generated series repeats through the year
PatLen == 3

\* largest raw distance handed to the Match % computation on its own
MaxDist == 60

-----------------------------------------------------------------------------
(* Program constants *)

Months == 12

max_score == 48

HeadRows == 20

temp_cols == 1..Months

-----------------------------------------------------------------------------
(* Pure helpers *)

Abs(x) == IF x < 0 THEN 0 - x ELSE x

Min(a, b) == IF a < b THEN a ELSE b

Max(a, b) == IF a > b THEN a ELSE b

\* variant: the Summer test comes first
season_label_for_month_SummerFirst(temp_c, winter_c, summer_c) ==
    IF temp_c >= summer_c THEN "Summer"
    ELSE IF temp_c <= winter_c THEN "Winter"
    ELSE "Transition"

season_label_for_month(temp_c, winter_c, summer_c) ==
    IF temp_c <= winter_c THEN "Winter"
    ELSE IF temp_c >= summer_c THEN "Summer"
    ELSE "Transition"

\* b.sum(axis=1) for one row of a boolean matrix
RowSum(b) == Cardinality({i \in DOMAIN b : b[i]})

is_winter(T, w) == [i \in temp_cols |-> T[i] <= w]

\* variant: a month at the summer threshold is not yet Summer
is_summer_Strict(T, s) == [i \in temp_cols |-> T[i] > s]

is_summer(T, s) == [i \in temp_cols |-> T[i] >= s]

is_transition(T, w, s) ==
    [i \in temp_cols |-> (~is_winter(T, w)[i]) /\ (~is_summer(T, s)[i])]

\* np.roll(T, -1) - T : next month minus this month, December wraps to January
delta(T) == [i \in temp_cols |-> T[(i % Months) + 1] - T[i]]

is_spring(T, w, s) == [i \in temp_cols |-> is_transition(T, w, s)[i] /\ delta(T)[i] > 0]

is_fall(T, w, s) == [i \in temp_cols |-> is_transition(T, w, s)[i] /\ delta(T)[i] < 0]

is_flat(T, w, s) == [i \in temp_cols |-> is_transition(T, w, s)[i] /\ delta(T)[i] = 0]

winter_len(T, w) == RowSum(is_winter(T, w))

summer_len(T, s) == RowSum(is_summer(T, s))

flat_len(T, w, s) == RowSum(is_flat(T, w, s))

spring_len(T, w, s) == RowSum(is_spring(T, w, s)) + (flat_len(T, w, s) \div 2)

fall_len(T, w, s) ==
    RowSum(is_fall(T, w, s)) + (flat_len(T, w, s) - (flat_len(T, w, s) \div 2))

\* variant: the spring term keeps its sign
score_Signed(r, wp, spp, sup, fap) ==
    Abs(r.Winter - wp) + (r.Spring - spp) + Abs(r.Summer - sup) + Abs(r.Autumn - fap)

score(r, wp, spp, sup, fap) ==
    Abs(r.Winter - wp) + Abs(r.Spring - spp) + Abs(r.Summer - sup) + Abs(r.Autumn - fap)

\* round-half-to-even of the rational n / d (n >= 0, d > 0)
RoundHalfEven(n, d) ==
    LET q == n \div d
        r == n % d
    IN  IF 2 * r < d THEN q
        ELSE IF 2 * r > d THEN q + 1
        ELSE IF q % 2 = 0 THEN q ELSE q + 1

\* variant: the Score column is left as the raw distance
HigherIsBetter_Raw(d) == d

\* out2["Score"] = max_score - out2["Score"]: distance turned into higher-is-better
HigherIsBetter(d) == max_score - d

\* variant: no .clip(0, 100)
MatchPct_NoClip(s) == RoundHalfEven(s * 1000, max_score)

\* (Score / max_score * 100).clip(0, 100).round(1), in tenths of a percent
MatchPct(s) ==
    LET clipped == IF s < 0 THEN 0 ELSE IF s > max_score THEN max_score ELSE s
    IN  RoundHalfEven(clipped * 1000, max_score)

\* frame.head(n)
head(s, n) == SubSeq(s, 1, Min(n, Len(s)))

\* the permutations of 1..n
Perms(n) == {p \in [1..n -> 1..n] : \A i, j \in 1..n : i # j => p[i] # p[j]}

\* variant: ascending=True
SortOrders_Ascending(rows) ==
    {p \in Perms(Len(rows)) :
        \A i, j \in 1..Len(rows) : i < j => rows[p[i]].Score <= rows[p[j]].Score}

\* sort_values("Score", ascending=False): the default sort is not stable, so
\* rows of equal Score may come out in any order
SortOrders(rows) ==
    {p \in Perms(Len(rows)) :
        \A i, j \in 1..Len(rows) : i < j => rows[p[i]].Score >= rows[p[j]].Score}

\* .iloc[0] of a filtered frame: the first row that passes the filter
FirstIndex(mask) ==
    CHOOSE i \in DOMAIN mask : mask[i] /\ \A j \in 1..(i - 1) : ~mask[j]

Label(r) == <<r.Rank, r.City, r.Match>>

-----------------------------------------------------------------------------
(* Inputs *)

Scenario7 == <<0, 0, 0, 10, 20, 25, 30, 28, 20, 10, 0, 0>>

FlatShoulder == <<0, 0, 0, 10, 10, 25, 30, 28, 20, 10, 0, 0>>

Mild == [i \in temp_cols |-> 10]

\* series of the sample CSVs of a whole run
SampleSeries == {Scenario7, FlatShoulder, Mild}

\* a pattern of PatLen temperatures repeated through the year
Expand(p) == [i \in temp_cols |-> p[((i - 1) % PatLen) + 1]]

PatternSeries == {Expand(p) : p \in [1..PatLen -> 0..MaxTemp]}

AllSeries == SampleSeries \cup PatternSeries

Cities == {"A", "B"}

SampleRows == [City : Cities, T : SampleSeries]

SeqsUpTo(S, n) == UNION {[1..k -> S] : k \in 0..n}

\* slider stops used in a whole run
SampleThresholds == {<<5, 20>>, <<20, 0>>, <<10, 10>>}

AllThresholds == (0..MaxTemp) \cup {5, 20}

SamplePrefs == {0, 1, 5, 12}

NoRow == [Rank |-> 0]

NoSeries == [i \in temp_cols |-> 0]

\* a frame keeps only the columns the CSV has
Restrict(r, cols) == [City |-> r.City, T |-> [c \in cols |-> r.T[c]]]

-----------------------------------------------------------------------------
(* State after the CSV has been read *)

TypeOK ==
    /\ pc \in {"check_columns", "stopped", "thresholds", "pref_w", "pref_sp", "pref_su",
               "classify", "score", "rank", "pick", "raised", "city", "resolve", "done"}
    /\ df_columns \subseteq temp_cols
    /\ Len(out_sorted) <= Len(out)

\* the sliders' default values
DefaultThresholds ==
    /\ winter_thresh = 5
    /\ summer_thresh = 20

DefaultPrefs ==
    /\ w_pref = 5
    /\ sp_pref = 2
    /\ su_pref = 3
    /\ fa_pref = 2

NothingComputed ==
    /\ out = << >>
    /\ out_sorted = << >>
    /\ picked_row = NoRow
    /\ temps_c = NoSeries
    /\ labels = << >>

\* pd.read_csv: any columns (here at most one of T1..T12 missing), up to MaxRows rows
Init ==
    /\ pc = "check_columns"
    /\ df_columns \in {temp_cols} \cup {temp_cols \ {c} : c \in temp_cols}
    /\ \E rows \in SeqsUpTo(SampleRows, MaxRows) :
          df = [i \in 1..Len(rows) |-> Restrict(rows[i], df_columns)]
    /\ DefaultThresholds
    /\ DefaultPrefs
    /\ NothingComputed

-----------------------------------------------------------------------------
(* The script, top to bottom *)

CheckColumns ==
    /\ pc = "check_columns"
    /\ LET missing == {c \in temp_cols : c \notin df_columns}
       IN  pc' = IF missing # {} THEN "stopped" ELSE "thresholds"
    /\ UNCHANGED <<df_columns, df, winter_thresh, summer_thresh, w_pref, sp_pref,
                   su_pref, fa_pref, out, out_sorted, picked_row, temps_c, labels>>

SetThresholds(stops) ==
    /\ pc = "thresholds"
    /\ \E th \in stops :
          /\ winter_thresh' = th[1]
          /\ summer_thresh' = th[2]
    /\ pc' = "pref_w"
    /\ UNCHANGED <<df_columns, df, w_pref, sp_pref, su_pref, fa_pref,
                   out, out_sorted, picked_row, temps_c, labels>>

WinterSlider(stops) ==
    /\ pc = "pref_w"
    /\ \E v \in stops \cap (0..Months) : w_pref' = v
    /\ pc' = "pref_sp"
    /\ UNCHANGED <<df_columns, df, winter_thresh, summer_thresh, sp_pref, su_pref,
                   fa_pref, out, out_sorted, picked_row, temps_c, labels>>

SpringSlider(stops) ==
    /\ pc = "pref_sp"
    /\ \E v \in stops \cap (0..Months) : sp_pref' = v
    /\ pc' = "pref_su"
    /\ UNCHANGED <<df_columns, df, winter_thresh, summer_thresh, w_pref, su_pref,
                   fa_pref, out, out_sorted, picked_row, temps_c, labels>>

SummerSlider(stops) ==
    /\ pc = "pref_su"
    /\ LET max_summer == Max(0, Months - (w_pref + sp_pref))
       IN  \E v \in stops \cap (0..max_summer) :
              /\ su_pref' = v
              /\ fa_pref' = Months - (w_pref + sp_pref + v)
    /\ pc' = "classify"
    /\ UNCHANGED <<df_columns, df, winter_thresh, summer_thresh, w_pref, sp_pref,
                   out, out_sorted, picked_row, temps_c, labels>>

SeasonLengths ==
    /\ pc = "classify"
    /\ out' = [i \in 1..Len(df) |->
                 [City   |-> df[i].City,
                  T      |-> df[i].T,
                  Winter |-> winter_len(df[i].T, winter_thresh),
                  Spring |-> spring_len(df[i].T, winter_thresh, summer_thresh),
                  Summer |-> summer_len(df[i].T, summer_thresh),
                  Autumn |-> fall_len(df[i].T, winter_thresh, summer_thresh)]]
    /\ pc' = "score"
    /\ UNCHANGED <<df_columns, df, winter_thresh, summer_thresh, w_pref, sp_pref,
                   su_pref, fa_pref, out_sorted, picked_row, temps_c, labels>>

WithScore(r, d) ==
    [City |-> r.City, T |-> r.T, Winter |-> r.Winter, Spring |-> r.Spring,
     Summer |-> r.Summer, Autumn |-> r.Autumn, Score |-> d]

ScoreRows ==
    /\ pc = "score"
    /\ out' = [i \in 1..Len(out) |->
                 WithScore(out[i], score(out[i], w_pref, sp_pref, su_pref, fa_pref))]
    /\ pc' = "rank"
    /\ UNCHANGED <<df_columns, df, winter_thresh, summer_thresh, w_pref, sp_pref,
                   su_pref, fa_pref, out_sorted, picked_row, temps_c, labels>>

Ranked(r, rank) ==
    [City |-> r.City, T |-> r.T, Winter |-> r.Winter, Spring |-> r.Spring,
     Summer |-> r.Summer, Autumn |-> r.Autumn, Score |-> r.Score,
     Rank |-> rank, Match |-> MatchPct(r.Score)]

RankRows ==
    /\ pc = "rank"
    /\ LET out2 == [i \in 1..Len(out) |-> WithScore(out[i], HigherIsBetter(out[i].Score))]
       IN  \E p \in SortOrders(out2) :
              out_sorted' = [i \in 1..Len(out2) |-> Ranked(out2[p[i]], i)]
    /\ pc' = "pick"
    /\ UNCHANGED <<df_columns, df, winter_thresh, summer_thresh, w_pref, sp_pref,
                   su_pref, fa_pref, out, picked_row, temps_c, labels>>

\* st.selectbox over the labels of the top rows; with no option it returns None,
\* no row has that label and .iloc[0] raises IndexError
PickCity ==
    /\ pc = "pick"
    /\ LET top_for_pick == head(out_sorted, HeadRows)
       IN  IF Len(top_for_pick) = 0
           THEN /\ pc' = "raised"
                /\ UNCHANGED <<picked_row, temps_c>>
           ELSE \E k \in 1..Len(top_for_pick) :
                   LET picked_label == Label(top_for_pick[k])
                       has_label == [i \in 1..Len(top_for_pick) |->
                                        Label(top_for_pick[i]) = picked_label]
                       row       == top_for_pick[FirstIndex(has_label)]
                       is_city   == [i \in 1..Len(df) |-> df[i].City = row.City]
                       city_row  == df[FirstIndex(is_city)]
                   IN  /\ picked_row' = row
                       /\ temps_c' = city_row.T
                       /\ pc' = "city"
    /\ UNCHANGED <<df_columns, df, winter_thresh, summer_thresh, w_pref, sp_pref,
                   su_pref, fa_pref, out, out_sorted, labels>>

ClassifyCity ==
    /\ pc = "city"
    /\ labels' = [i \in temp_cols |->
                    season_label_for_month(temps_c[i], winter_thresh, summer_thresh)]
    /\ pc' = "resolve"
    /\ UNCHANGED <<df_columns, df, winter_thresh, summer_thresh, w_pref, sp_pref,
                   su_pref, fa_pref, out, out_sorted, picked_row, temps_c>>

\* the per-month loop: Transition becomes Spring or Autumn, a flat month Spring
ResolveLabel(label, d) ==
    IF label = "Transition"
    THEN IF d > 0 THEN "Spring" ELSE IF d < 0 THEN "Autumn" ELSE "Spring"
    ELSE label

ResolveTransitions ==
    /\ pc = "resolve"
    /\ LET deltas == delta(temps_c)
       IN  labels' = [i \in temp_cols |-> ResolveLabel(labels[i], deltas[i])]
    /\ pc' = "done"
    /\ UNCHANGED <<df_columns, df, winter_thresh, summer_thresh, w_pref, sp_pref,
                   su_pref, fa_pref, out, out_sorted, picked_row, temps_c>>

Compute ==
    \/ SeasonLengths
    \/ ScoreRows
    \/ RankRows
    \/ PickCity
    \/ ClassifyCity
    \/ ResolveTransitions

Next ==
    \/ CheckColumns
    \/ SetThresholds(SampleThresholds)
    \/ WinterSlider(SamplePrefs)
    \/ SpringSlider(SamplePrefs)
    \/ SummerSlider(SamplePrefs)
    \/ Compute

Spec == Init /\ [][Next]_vars

-----------------------------------------------------------------------------
(* The classification of one row, over every generated series and threshold *)

InitClassify ==
    /\ pc = "classify"
    /\ df_columns = temp_cols
    /\ \E t \in AllSeries : df = <<[City |-> "A", T |-> t]>>
    /\ winter_thresh \in AllThresholds
    /\ summer_thresh \in AllThresholds
    /\ DefaultPrefs
    /\ NothingComputed

SpecClassify == InitClassify /\ [][Compute]_vars

-----------------------------------------------------------------------------
(* The preference sliders over their whole range *)

InitPref ==
    /\ pc = "pref_w"
    /\ df_columns = temp_cols
    /\ df = << >>
    /\ DefaultThresholds
    /\ DefaultPrefs
    /\ NothingComputed

NextPref ==
    \/ WinterSlider(0..Months)
    \/ SpringSlider(0..Months)
    \/ SummerSlider(0..Months)

SpecPref == InitPref /\ [][NextPref]_vars

-----------------------------------------------------------------------------
(* The distance score over all season counts and preferences summing to 12 *)

\* four month counts in 0..12 that sum to 12
Splits ==
    {c \in [1..4 -> 0..Months] : c[1] + c[2] + c[3] + c[4] = Months}

InitScore ==
    /\ pc = "score"
    /\ df_columns = temp_cols
    /\ df = <<[City |-> "A", T |-> NoSeries]>>
    /\ DefaultThresholds
    /\ \E c \in Splits :
          out = <<[City |-> "A", T |-> NoSeries, Winter |-> c[1], Spring |-> c[2],
                   Summer |-> c[3], Autumn |-> c[4]]>>
    /\ \E c \in Splits :
          /\ w_pref = c[1]
          /\ sp_pref = c[2]
          /\ su_pref = c[3]
          /\ fa_pref = c[4]
    /\ out_sorted = << >>
    /\ picked_row = NoRow
    /\ temps_c = NoSeries
    /\ labels = << >>

NextScore == ScoreRows

SpecScore == InitScore /\ [][NextScore]_vars

-----------------------------------------------------------------------------
(* Match % over every pair of distances up to MaxDist *)

DistRow(city, d) ==
    [City |-> city, T |-> NoSeries, Winter |-> 0, Spring |-> 0, Summer |-> 0,
     Autumn |-> 0, Score |-> d]

InitMatch ==
    /\ pc = "rank"
    /\ df_columns = temp_cols
    /\ df = <<[City |-> "A", T |-> NoSeries], [City |-> "B", T |-> NoSeries]>>
    /\ DefaultThresholds
    /\ DefaultPrefs
    /\ \E d1, d2 \in 0..MaxDist : out = <<DistRow("A", d1), DistRow("B", d2)>>
    /\ out_sorted = << >>
    /\ picked_row = NoRow
    /\ temps_c = NoSeries
    /\ labels = << >>

NextMatch == RankRows

SpecMatch == InitMatch /\ [][NextMatch]_vars

-----------------------------------------------------------------------------
(* Properties *)

Counts(r) == <<r.Winter, r.Spring, r.Summer, r.Autumn>>

Prefs == <<w_pref, sp_pref, su_pref, fa_pref>>

Scored == pc \in {"rank", "pick", "raised", "city", "resolve", "done"}

RankedNow == pc \in {"pick", "raised", "city", "resolve", "done"}

\* the distance a ranked row was given before its Score was turned round
Distance(r) == max_score - r.Score

Tally(ls, name) == Cardinality({i \in DOMAIN ls : ls[i] = name})

ScenarioRun ==
    /\ df = <<[City |-> "A", T |-> Scenario7]>>
    /\ winter_thresh = 5
    /\ summer_thresh = 20
    /\ Prefs = <<5, 2, 3, 2>>

\* C1: the four aggregate season counts of every row are non-negative and sum
\* to 12, for every pair of thresholds (winter >= summer included).
C1_CountsSumToTwelve ==
    \A i \in 1..Len(out) :
        /\ out[i].Winter >= 0
        /\ out[i].Spring >= 0
        /\ out[i].Summer >= 0
        /\ out[i].Autumn >= 0
        /\ out[i].Winter + out[i].Spring + out[i].Summer + out[i].Autumn = Months

\* C2 as stated: for the series of scenario 7 with thresholds 5 and 20 the coarse
\* labels are W W W Tr Tr S S S Tr Tr W W, the final labels Winter x3, Spring x2,
\* Summer x3, Autumn x2, Winter x2, the counts 5/2/3/2 and the distance to the
\* preference 5/2/3/2 is 0.
C2_ScenarioAsStated ==
    ScenarioRun =>
        /\ pc = "resolve" =>
              labels = <<"Winter", "Winter", "Winter", "Transition", "Transition", "Summer",
                         "Summer", "Summer", "Transition", "Transition", "Winter", "Winter">>
        /\ pc = "done" =>
              labels = <<"Winter", "Winter", "Winter", "Spring", "Spring", "Summer",
                         "Summer", "Summer", "Autumn", "Autumn", "Winter", "Winter">>
        /\ Len(out) = 1 => Counts(out[1]) = <<5, 2, 3, 2>>
        /\ pc = "rank" => out[1].Score = 0

\* C2 as amended: the two months at exactly 20 are Summer: the coarse labels are
\* W W W Tr S S S S S Tr W W, the final labels Winter x3, Spring, Summer x5,
\* Autumn, Winter x2, the counts 5/1/5/1 and the distance to 5/2/3/2 is 4.
C2_ScenarioAsComputed ==
    ScenarioRun =>
        /\ pc = "resolve" =>
              labels = <<"Winter", "Winter", "Winter", "Transition", "Summer", "Summer",
                         "Summer", "Summer", "Summer", "Transition", "Winter", "Winter">>
        /\ pc = "done" =>
              labels = <<"Winter", "Winter", "Winter", "Spring", "Summer", "Summer",
                         "Summer", "Summer", "Summer", "Autumn", "Winter", "Winter">>
        /\ Len(out) = 1 => Counts(out[1]) = <<5, 1, 5, 1>>
        /\ pc = "rank" => out[1].Score = 4

C2_Witness == ScenarioRun /\ pc = "done" /\ Len(out) = 1 /\ Len(labels) = Months

\* C3: the coarse label of a month is Winter iff temp <= winter threshold, Summer
\* iff temp > winter threshold and temp >= summer threshold, Transition otherwise;
\* with winter >= summer threshold no month is Transition, and a temperature equal
\* to both thresholds is Winter.
C3_ClassifyMonth ==
    pc = "resolve" =>
        \A i \in temp_cols :
            LET t == temps_c[i] IN
            /\ labels[i] \in {"Winter", "Summer", "Transition"}
            /\ labels[i] = "Winter" <=> t <= winter_thresh
            /\ labels[i] = "Summer" <=> (t > winter_thresh /\ t >= summer_thresh)
            /\ labels[i] = "Transition" <=> (t > winter_thresh /\ t < summer_thresh)
            /\ winter_thresh >= summer_thresh => labels[i] # "Transition"
            /\ (t = winter_thresh /\ t = summer_thresh) => labels[i] = "Winter"

C3_Witness ==
    /\ pc = "resolve"
    /\ winter_thresh = summer_thresh
    /\ \E i \in temp_cols : temps_c[i] = winter_thresh
    /\ \E i \in temp_cols : temps_c[i] > winter_thresh

Gap(a, b) == IF a >= b THEN a - b ELSE b - a

\* C4: the distance of a row is the sum of the four absolute differences between
\* its counts and the preference; for counts and a preference in 0..12 summing to
\* 12 it lies in 0..48 and is 0 exactly when they are equal; 12/0/0/0 against
\* 0/4/4/4 gives 24.
C4_ScoreRange ==
    pc = "rank" =>
        \A i \in 1..Len(out) :
            LET c == Counts(out[i]) IN
            /\ out[i].Score = Gap(c[1], Prefs[1]) + Gap(c[2], Prefs[2])
                                + Gap(c[3], Prefs[3]) + Gap(c[4], Prefs[4])
            /\ (c \in Splits /\ Prefs \in Splits) =>
                  /\ out[i].Score \in 0..max_score
                  /\ out[i].Score = 0 <=> c = Prefs
            /\ (c = <<12, 0, 0, 0>> /\ Prefs = <<0, 4, 4, 4>>) => out[i].Score = 24

C4_Witness ==
    /\ pc = "rank"
    /\ Counts(out[1]) = <<12, 0, 0, 0>>
    /\ Prefs = <<0, 4, 4, 4>>
    /\ out[1].Score = 24

\* C5: Match % depends only on the distance, never rises as the distance grows,
\* lies in 0..100, is 100.0 at distance 0, 50.0 at 24, and 0.0 at 48 and above.
C5_MatchPercent ==
    pc = "pick" =>
        \A i, j \in 1..Len(out_sorted) :
            LET ri == out_sorted[i]
                rj == out_sorted[j]
            IN  /\ ri.Match \in 0..1000
                /\ Distance(ri) <= Distance(rj) => ri.Match >= rj.Match
                /\ Distance(ri) = 0 => ri.Match = 1000
                /\ Distance(ri) = 24 => ri.Match = 500
                /\ Distance(ri) >= max_score => ri.Match = 0

C5_Witness ==
    /\ pc = "pick"
    /\ \E i, j \in 1..Len(out_sorted) :
          /\ Distance(out_sorted[i]) = 24
          /\ Distance(out_sorted[j]) > max_score
          /\ out_sorted[i].Match = 500
          /\ out_sorted[j].Match = 0

\* C6: ranking N rows gives N entries with Rank 1..N in output order, ordered by
\* non-increasing Match % and non-decreasing distance, Rank 1 a row of least
\* distance, and the entries are the input rows in some order.
C6_Ranking ==
    RankedNow =>
        /\ Len(out_sorted) = Len(df)
        /\ \A i \in 1..Len(out_sorted) : out_sorted[i].Rank = i
        /\ \A i, j \in 1..Len(out_sorted) :
              i < j => /\ out_sorted[i].Match >= out_sorted[j].Match
                       /\ Distance(out_sorted[i]) <= Distance(out_sorted[j])
        /\ \A i \in 1..Len(out) :
              Len(out_sorted) > 0 => Distance(out_sorted[1]) <= out[i].Score
        /\ \E p \in Perms(Len(df)) :
              \A i \in 1..Len(df) :
                  /\ out_sorted[i].City = df[p[i]].City
                  /\ out_sorted[i].T = df[p[i]].T
                  /\ Counts(out_sorted[i]) = Counts(out[p[i]])
                  /\ Distance(out_sorted[i]) = out[p[i]].Score

C6_Witness ==
    /\ pc = "pick"
    /\ Len(out_sorted) = 2
    /\ out_sorted[1].City # out_sorted[2].City
    /\ out_sorted[1].Score = out_sorted[2].Score
    /\ out_sorted[1].Rank = 1
    /\ out_sorted[2].Rank = 2

\* C7 as stated: the Score of a ranked entry is the raw distance: 0 for a row whose
\* counts equal the preference, and it does not fall as Rank rises.
C7_ScoreIsRawDistance ==
    RankedNow =>
        /\ \A i \in 1..Len(out_sorted) :
              /\ out_sorted[i].Score = score(out_sorted[i], w_pref, sp_pref, su_pref, fa_pref)
              /\ Counts(out_sorted[i]) = Prefs => out_sorted[i].Score = 0
        /\ \A i, j \in 1..Len(out_sorted) :
              i < j => out_sorted[i].Score <= out_sorted[j].Score

\* C7 as amended: the Score of a ranked entry is 48 minus the raw distance: 48 for
\* a row whose counts equal the preference, and it does not rise as Rank rises.
C7_ScoreIsMaxMinusDistance ==
    RankedNow =>
        /\ \A i \in 1..Len(out_sorted) :
              /\ out_sorted[i].Score =
                    max_score - score(out_sorted[i], w_pref, sp_pref, su_pref, fa_pref)
              /\ Counts(out_sorted[i]) = Prefs => out_sorted[i].Score = max_score
        /\ \A i, j \in 1..Len(out_sorted) :
              i < j => out_sorted[i].Score >= out_sorted[j].Score

C7_Witness ==
    /\ pc = "pick"
    /\ Len(out_sorted) = 2
    /\ Counts(out_sorted[1]) = Prefs
    /\ out_sorted[1].Score = max_score
    /\ out_sorted[2].Score < max_score

\* C8: a CSV with all of T1..T12 and no rows runs to its end without raising.
C8_EmptyDatasetCompletes ==
    (df_columns = temp_cols /\ df = << >>) => pc # "raised"

\* C9: the tally of the twelve labels of the month-by-month breakdown equals the
\* Winter/Spring/Summer/Autumn counts of the selected city in the ranked table.
C9_BreakdownMatchesTable ==
    pc = "done" =>
        /\ Tally(labels, "Winter") = picked_row.Winter
        /\ Tally(labels, "Spring") = picked_row.Spring
        /\ Tally(labels, "Summer") = picked_row.Summer
        /\ Tally(labels, "Autumn") = picked_row.Autumn

\* C10: once the three sliders are set, the four preference values are
\* non-negative and sum to 12.
C10_PreferenceSumsToTwelve ==
    pc = "classify" =>
        /\ w_pref >= 0
        /\ sp_pref >= 0
        /\ su_pref >= 0
        /\ fa_pref >= 0
        /\ w_pref + sp_pref + su_pref + fa_pref = Months

====
